---- MODULE Spec2Model ----
(***************************************************************************)
(* EasyFlash, STM32F10x demo port (components/flash/port/flash_port.c).    *)
(*                                                                         *)
(* The port layer gives the environment-variable store four operations on  *)
(* the on-chip NOR flash: flash_port_init, flash_read, flash_erase and     *)
(* flash_write, plus three logging channels.  The model follows the code   *)
(* statement by statement; every access to the flash controller            *)
(* (FLASH_Unlock, FLASH_ErasePage, FLASH_ProgramWord, the readback,        *)
(* FLASH_Lock) is one step of the caller that issues it, and the trace of  *)
(* a call lists, in order, the controller accesses it made and the strings *)
(* it handed to rt_kprintf.                                                *)
(*                                                                         *)
(* The medium is modelled on a window of NumPages pages around the         *)
(* environment region; of each page the first TrackWords words and the     *)
(* last word are tracked.  A 32-bit word is written as its eight hex       *)
(* digits; Bits gives the set of one-bits of a word.                       *)
(***************************************************************************)
EXTENDS Integers, Sequences, FiniteSets, TLC

(* ---------------------------- bounds ----------------------------------- *)
\* pages of the modelled window; the environment region is page RegionPage
NumPages == 3
\* words tracked at the start of every page
TrackWords == 4
\* longest buffer (in words) handed to flash_write / flash_read
MaxWords == 3

(* ------------------------ program constants ---------------------------- *)
\* stm32f10x.h: base address of the on-chip flash (0x08000000)
FLASH_BASE == 134217728
\* index, in the window, of the page that holds the environment region
RegionPage == NumPages \div 2
\* the two values PAGE_SIZE takes, by device density
PageSizes == {1024, 2048}

FLASH_NO_ERR == "FLASH_NO_ERR"
FLASH_ERASE_ERR == "FLASH_ERASE_ERR"
FLASH_WRITE_ERR == "FLASH_WRITE_ERR"

FLASH_COMPLETE == "FLASH_COMPLETE"
\* the statuses an erase can end with (FLASH_BUSY and FLASH_ERROR_PG are
\* handled by the port exactly as the two failures kept here)
FLASH_Status == {"FLASH_ERROR_WRP", "FLASH_COMPLETE", "FLASH_TIMEOUT"}

\* the default environment variables set for user
default_env_set ==
    << <<"iap_need_copy_app", "0">>,
       <<"iap_copy_app_size", "0">>,
       <<"stop_in_bootloader", "0">>,
       <<"device_id", "1">>,
       <<"boot_times", "0">> >>

(* ------------------------------ words ---------------------------------- *)
ERASED == "FFFFFFFF"
Words == {"FFFFFFFF", "AAAAAAAA", "55555555", "00000000"}
\* the words callers hand to flash_write
DataWords == {"AAAAAAAA", "55555555"}

\* the one-bits of a word, bit 0 the least significant
Bits(w) ==
    CASE w = "FFFFFFFF" -> 0..31
      [] w = "AAAAAAAA" -> {b \in 0..31 : b % 2 = 1}
      [] w = "55555555" -> {b \in 0..31 : b % 2 = 0}
      [] w = "00000000" -> {}

(* ---------------------------- variables -------------------------------- *)
VARIABLES
    PAGE_SIZE,    \* the page size the port was built for
    mem,          \* content of the tracked flash words, by address
    locked,       \* LOCK bit of the flash controller
    call,         \* per caller: the call in progress and its locals
    mem0,         \* content of the medium when the latest call was entered
    guarded       \* the overlying store holds its lock around every call

vars == <<PAGE_SIZE, mem, locked, call, mem0, guarded>>

\* the slots for the calls in flight: a call takes the lowest free slot
Callers == {1, 2}

(* ----------------------------- geometry -------------------------------- *)
FLASH_ENV_START_ADDR == FLASH_BASE + 100 * 1024
\* (variant: a page and a half)
FLASH_ENV_SECTION_SIZE_half == PAGE_SIZE + PAGE_SIZE \div 2
FLASH_ENV_SECTION_SIZE == 1 * PAGE_SIZE

\* start address of window page p; the window starts RegionPage pages
\* below the environment region
PageAddr(p) == FLASH_ENV_START_ADDR + (p - RegionPage) * PAGE_SIZE
Pages == 0..(NumPages - 1)
\* start address of the page that holds address a
PageOf(a) == a - (a % PAGE_SIZE)
PageCells(p) ==
    {PageAddr(p) + 4 * j : j \in 0..(TrackWords - 1)}
        \cup {PageAddr(p) + PAGE_SIZE - 4}
Cells == UNION {PageCells(p) : p \in Pages}


(* ------------------------------ medium --------------------------------- *)
\* the tracked words of the page that holds address a, all ones
ErasedPage(m, a) ==
    [x \in DOMAIN m |-> IF PageOf(x) = PageOf(a) THEN ERASED ELSE m[x]]

\* FLASH_ErasePage(a): the pairs <<status, content>> the controller can
\* leave.  FLASH_COMPLETE is reported only for a page that is all ones; a
\* write-protected page stays as it was; an erase may also time out on a
\* page it did erase; a locked controller ignores the request.
ErasePageOutcomes(m, lk, a) ==
    IF lk
    THEN {<<s, m>> : s \in FLASH_Status}
    ELSE {<<FLASH_COMPLETE, ErasedPage(m, a)>>,
          <<"FLASH_ERROR_WRP", m>>,
          <<"FLASH_TIMEOUT", ErasedPage(m, a)>>}

\* FLASH_ProgramWord(a, w): the contents the controller can leave.
\* Programming only clears bits: a sound cell ends as the AND of its old
\* value and w, a defective or rejected program clears only some of those
\* bits (possibly none); a locked controller ignores the request.
ProgramWordOutcomes(m, lk, a, w) ==
    IF lk \/ a \notin DOMAIN m
    THEN {m}
    ELSE {[m EXCEPT ![a] = v] :
            v \in {u \in Words :
                     /\ (Bits(m[a]) \cap Bits(w)) \subseteq Bits(u)
                     /\ Bits(u) \subseteq Bits(m[a])}}

(* ------------------------------ inputs --------------------------------- *)
UNSET == "--------"
\* capacity of the buffer a caller hands to flash_read
ReadBufLen == TrackWords + 1

NoOut == [env_addr |-> 0, env_size |-> 0, default_env |-> <<>>,
          default_env_size |-> 0]

IdleCall ==
    [op |-> "none", pc |-> "idle", addr |-> 0, size |-> 0, buf |-> <<>>,
     i |-> 0, erase_pages |-> 0, result |-> FLASH_NO_ERR, trace |-> <<>>,
     out |-> NoOut]

SizeHints == {0, 2, 1023, 1024}
EraseAddrs == {PageAddr(p) : p \in Pages} \cup {FLASH_ENV_START_ADDR + 4}
EraseSizes == {0, 1500, 2049, FLASH_ENV_SECTION_SIZE}
WordAddrs == {FLASH_ENV_START_ADDR, FLASH_ENV_START_ADDR + 4}
WriteSizes == {4 * k : k \in 0..MaxWords} \cup {1}
\* the words flash_write takes from a buffer of size bytes
WordsOf(size) == (size + 3) \div 4
\* the words [a, a + 4n) lie within the tracked words of the region page
Tracked(a, n) == (a - FLASH_ENV_START_ADDR) \div 4 + n <= TrackWords
\* the words [a, a + 4n) lie within the words callers program
WriteFits(a, n) == (a - FLASH_ENV_START_ADDR) \div 4 + n <= MaxWords

(* ------------------------------- Init ---------------------------------- *)
\* After reset the controller is locked; the flash holds the all-zero image
\* of an earlier use (a blank chip is what erasing every page leaves).
Init ==
    /\ PAGE_SIZE \in PageSizes
    /\ mem = [a \in Cells |-> "00000000"]
    /\ mem0 = mem
    /\ locked = TRUE
    /\ call = [c \in Callers |-> IdleCall]
    /\ guarded = TRUE

(* -------------------------- flash_port_init ---------------------------- *)
\* entry: *env_size holds the caller's hint, the other outputs are unset
Call_flash_port_init(c, hint) ==
    /\ call[c].pc = "idle"
    /\ call' = [call EXCEPT ![c] =
                  [IdleCall EXCEPT !.op = "init", !.pc = "i_assert",
                                   !.size = hint, !.result = FLASH_NO_ERR,
                                   !.out = [NoOut EXCEPT !.env_size = hint]]]
    /\ mem0' = mem
    /\ UNCHANGED <<PAGE_SIZE, guarded, mem, locked>>

\* (variant: the assertion tests half-word alignment only)
init_assert_holds_even(env_size) == env_size % 2 = 0

\* FLASH_ASSERT((*env_size) % 4 == 0): a failed assertion never returns
init_assert_holds(env_size) == env_size % 4 = 0

\* FLASH_ASSERT(EXPR): the fatal configuration fault halts the caller
FLASH_ASSERT(holds) == IF holds THEN "i_assign" ELSE "fault"

init_assert(c) ==
    /\ call[c].pc = "i_assert"
    /\ call' = [call EXCEPT ![c].pc =
                  FLASH_ASSERT(init_assert_holds(call[c].out.env_size))]
    /\ UNCHANGED <<PAGE_SIZE, guarded, mem, locked, mem0>>

\* (variant: a non-zero hint is kept as the size)
init_outputs_hint(hint) ==
    [env_addr |-> FLASH_ENV_START_ADDR,
     env_size |-> IF hint # 0 THEN hint ELSE FLASH_ENV_SECTION_SIZE,
     default_env |-> default_env_set,
     default_env_size |-> Len(default_env_set)]

\* (variant: the count is the size of the array in bytes, the division by
\* the size of one entry left out)
init_outputs_sizeof(hint) ==
    [env_addr |-> FLASH_ENV_START_ADDR,
     env_size |-> FLASH_ENV_SECTION_SIZE,
     default_env |-> default_env_set,
     default_env_size |-> Len(default_env_set) * 8]

\* the four outputs flash_port_init assigns, whatever the hint
init_outputs(hint) ==
    [env_addr |-> FLASH_ENV_START_ADDR,
     env_size |-> FLASH_ENV_SECTION_SIZE,
     default_env |-> default_env_set,
     default_env_size |-> Len(default_env_set)]

init_assign(c) ==
    /\ call[c].pc = "i_assign"
    /\ call' = [call EXCEPT ![c].out = init_outputs(call[c].size),
                            ![c].pc = "done"]
    /\ UNCHANGED <<PAGE_SIZE, guarded, mem, locked, mem0>>

(* ----------------------------- flash_read ------------------------------ *)
\* i counts the words copied: the code's size is size - i, its addr is
\* addr + 4i and its buf points at element i + 1
Call_flash_read(c, addr, size) ==
    /\ call[c].pc = "idle"
    /\ call' = [call EXCEPT ![c] =
                  [IdleCall EXCEPT !.op = "read", !.pc = "r_loop",
                                   !.addr = addr, !.size = size,
                                   !.buf = [j \in 1..ReadBufLen |-> UNSET],
                                   !.result = FLASH_NO_ERR]]
    /\ mem0' = mem
    /\ UNCHANGED <<PAGE_SIZE, guarded, mem, locked>>

\* (variant: size counts bytes)
read_step_bytes(c) ==
    /\ call[c].pc = "r_loop"
    /\ LET k == call[c] IN
         IF k.size - 4 * k.i > 0
         THEN call' = [call EXCEPT ![c].buf[k.i + 1] = mem[k.addr + 4 * k.i],
                                   ![c].i = k.i + 1]
         ELSE call' = [call EXCEPT ![c].pc = "done"]
    /\ UNCHANGED <<PAGE_SIZE, guarded, mem, locked, mem0>>

\* (variant: the copy is made with the controller unlocked)
read_step_unlock(c) ==
    /\ call[c].pc = "r_loop"
    /\ LET k == call[c] IN
         IF k.size - k.i > 0
         THEN call' = [call EXCEPT ![c].buf[k.i + 1] = mem[k.addr + 4 * k.i],
                                   ![c].i = k.i + 1]
         ELSE call' = [call EXCEPT ![c].pc = "done"]
    /\ locked' = FALSE
    /\ UNCHANGED <<PAGE_SIZE, guarded, mem, mem0>>

\* the loop test and one iteration (copy to buffer), or return FLASH_NO_ERR
read_step(c) ==
    /\ call[c].pc = "r_loop"
    /\ LET k == call[c] IN
         IF k.size - k.i > 0
         THEN call' = [call EXCEPT ![c].buf[k.i + 1] = mem[k.addr + 4 * k.i],
                                   ![c].i = k.i + 1]
         ELSE call' = [call EXCEPT ![c].pc = "done"]
    /\ UNCHANGED <<PAGE_SIZE, guarded, mem, locked, mem0>>

\* what flash_read(addr, buf, n) leaves in the first n elements of buf
RECURSIVE flash_read_words(_, _, _)
flash_read_words(m, addr, n) ==
    IF n = 0 THEN <<>>
    ELSE <<m[addr]>> \o flash_read_words(m, addr + 4, n - 1)

(* ------------------------------- traces -------------------------------- *)
\* the entries a call adds to its trace
Kprintf(strs) == [j \in 1..Len(strs) |-> <<"kprintf", 0, strs[j]>>]
Entries(t, kind) == SelectSeq(t, LAMBDA e : e[1] = kind)

(* ----------------------------- flash_erase ----------------------------- *)
\* (variant: the remainder is dropped)
erase_pages_of_trunc(size) == size \div PAGE_SIZE

\* (variant: one page is always added)
erase_pages_of_plus1(size) == size \div PAGE_SIZE + 1

\* calculate pages
erase_pages_of(size) ==
    IF size % PAGE_SIZE # 0 THEN size \div PAGE_SIZE + 1
    ELSE size \div PAGE_SIZE

\* (variant: the pages are counted from one)
erase_page_addr_next(addr, i) == addr + (PAGE_SIZE * (i + 1))

\* the address handed to FLASH_ErasePage in iteration i
erase_page_addr(addr, i) == addr + (PAGE_SIZE * i)

\* (variant: the failure is logged on the info channel)
erase_fail_log_info == Kprintf(<<"[Flash]", "msg">>)

\* the strings flash_erase hands to rt_kprintf when a page erase fails
erase_fail_log == <<>>

\* (variant: no break, the loop goes on after a failed page)
erase_next_pc_nobreak(status, i, erase_pages) ==
    IF i + 1 < erase_pages THEN "e_page" ELSE "e_lock"

\* (variant: the failure path returns at once)
erase_next_pc_return(status, i, erase_pages) ==
    IF status # FLASH_COMPLETE THEN "done"
    ELSE IF i + 1 < erase_pages THEN "e_page" ELSE "e_lock"

\* where flash_erase continues after FLASH_ErasePage returned status in
\* iteration i: the break and the end of the loop both lead to FLASH_Lock
erase_next_pc(status, i, erase_pages) ==
    IF status # FLASH_COMPLETE THEN "e_lock"
    ELSE IF i + 1 < erase_pages THEN "e_page" ELSE "e_lock"

Call_flash_erase(c, addr, size) ==
    /\ call[c].pc = "idle"
    /\ call' = [call EXCEPT ![c] =
                  [IdleCall EXCEPT !.op = "erase", !.pc = "e_unlock",
                                   !.addr = addr, !.size = size,
                                   !.erase_pages = erase_pages_of(size),
                                   !.result = FLASH_NO_ERR]]
    /\ mem0' = mem
    /\ UNCHANGED <<PAGE_SIZE, guarded, mem, locked>>

\* (variant: FLASH_Unlock is left out)
erase_unlock_skip(c) ==
    /\ call[c].pc = "e_unlock"
    /\ call' = [call EXCEPT
                  ![c].trace = Append(@, <<"unlock", 0, "">>),
                  ![c].pc = IF 0 < call[c].erase_pages
                            THEN "e_page" ELSE "e_lock"]
    /\ UNCHANGED <<PAGE_SIZE, guarded, mem, locked, mem0>>

\* (variant: the loop body runs before the first test, do ... while)
erase_unlock_dowhile(c) ==
    /\ call[c].pc = "e_unlock"
    /\ locked' = FALSE
    /\ call' = [call EXCEPT
                  ![c].trace = Append(@, <<"unlock", 0, "">>),
                  ![c].pc = "e_page"]
    /\ UNCHANGED <<PAGE_SIZE, guarded, mem, mem0>>

\* FLASH_Unlock(); FLASH_ClearFlag(...); first test of the loop condition
erase_unlock(c) ==
    /\ call[c].pc = "e_unlock"
    /\ locked' = FALSE
    /\ call' = [call EXCEPT
                  ![c].trace = Append(@, <<"unlock", 0, "">>),
                  ![c].pc = IF 0 < call[c].erase_pages
                            THEN "e_page" ELSE "e_lock"]
    /\ UNCHANGED <<PAGE_SIZE, guarded, mem, mem0>>

\* one iteration: FLASH_ErasePage, the status test, i++ and the loop test
erase_page(c) ==
    /\ call[c].pc = "e_page"
    /\ LET k == call[c]
           a == erase_page_addr(k.addr, k.i)
       IN \E o \in ErasePageOutcomes(mem, locked, a) :
            /\ mem' = o[2]
            /\ call' = [call EXCEPT
                  ![c].trace = Append(@, <<"erase", a, o[1]>>)
                                 \o (IF o[1] # FLASH_COMPLETE
                                     THEN erase_fail_log ELSE <<>>),
                  ![c].result = IF o[1] # FLASH_COMPLETE
                                THEN FLASH_ERASE_ERR ELSE @,
                  ![c].i = IF o[1] # FLASH_COMPLETE THEN @ ELSE @ + 1,
                  ![c].pc = erase_next_pc(o[1], k.i, k.erase_pages)]
    /\ UNCHANGED <<PAGE_SIZE, guarded, locked, mem0>>

\* FLASH_Lock(); return result
erase_lock(c) ==
    /\ call[c].pc = "e_lock"
    /\ locked' = TRUE
    /\ call' = [call EXCEPT ![c].trace = Append(@, <<"lock", 0, "">>),
                            ![c].pc = "done"]
    /\ UNCHANGED <<PAGE_SIZE, guarded, mem, mem0>>

(* ----------------------------- flash_write ----------------------------- *)
\* i is the byte offset of the loop; the code's addr is addr + i and its
\* buf points at element i / 4 + 1
write_word(buf, i) == buf[i \div 4 + 1]

\* (variant: the readback is not compared)
write_verify_ok_skip(read_data, w) == TRUE

\* (variant: only bits that should be zero are checked)
write_verify_ok_bits(read_data, w) == Bits(read_data) \subseteq Bits(w)

\* check data
write_verify_ok(read_data, w) == read_data = w

\* the strings flash_write hands to rt_kprintf when the check fails
write_fail_log == <<>>

\* (variant: no break, the loop goes on after a failed check)
write_next_pc_nobreak(ok, i, size) ==
    IF i + 4 < size THEN "w_program" ELSE "w_lock"

\* (variant: a failed check programs the same word again)
write_next_pc_retry(ok, i, size) ==
    IF ~ok THEN "w_program"
    ELSE IF i + 4 < size THEN "w_program" ELSE "w_lock"

\* where flash_write continues after the check of the word at offset i
write_next_pc(ok, i, size) ==
    IF ~ok THEN "w_lock"
    ELSE IF i + 4 < size THEN "w_program" ELSE "w_lock"

Call_flash_write(c, addr, buf, size) ==
    /\ call[c].pc = "idle"
    /\ call' = [call EXCEPT ![c] =
                  [IdleCall EXCEPT !.op = "write", !.pc = "w_unlock",
                                   !.addr = addr, !.size = size,
                                   !.buf = buf, !.result = FLASH_NO_ERR]]
    /\ mem0' = mem
    /\ UNCHANGED <<PAGE_SIZE, guarded, mem, locked>>

\* (variant: the loop takes whole words only, i + 4 <= size)
write_unlock_floor(c) ==
    /\ call[c].pc = "w_unlock"
    /\ locked' = FALSE
    /\ call' = [call EXCEPT
                  ![c].trace = Append(@, <<"unlock", 0, "">>),
                  ![c].pc = IF 4 <= call[c].size
                            THEN "w_program" ELSE "w_lock"]
    /\ UNCHANGED <<PAGE_SIZE, guarded, mem, mem0>>

\* FLASH_Unlock(); FLASH_ClearFlag(...); first test of the loop condition
write_unlock(c) ==
    /\ call[c].pc = "w_unlock"
    /\ locked' = FALSE
    /\ call' = [call EXCEPT
                  ![c].trace = Append(@, <<"unlock", 0, "">>),
                  ![c].pc = IF 0 < call[c].size
                            THEN "w_program" ELSE "w_lock"]
    /\ UNCHANGED <<PAGE_SIZE, guarded, mem, mem0>>

\* (variant: the word is programmed and the loop goes on, no readback)
write_program_noverify(c) ==
    /\ call[c].pc = "w_program"
    /\ LET k == call[c]
           a == k.addr + k.i
           w == write_word(k.buf, k.i)
       IN /\ mem' \in ProgramWordOutcomes(mem, locked, a, w)
          /\ call' = [call EXCEPT
                  ![c].trace = Append(@, <<"program", a, w>>),
                  ![c].i = @ + 4,
                  ![c].pc = IF k.i + 4 < k.size
                            THEN "w_program" ELSE "w_lock"]
    /\ UNCHANGED <<PAGE_SIZE, guarded, locked, mem0>>

\* write data
write_program(c) ==
    /\ call[c].pc = "w_program"
    /\ LET k == call[c]
           a == k.addr + k.i
           w == write_word(k.buf, k.i)
       IN /\ mem' \in ProgramWordOutcomes(mem, locked, a, w)
          /\ call' = [call EXCEPT
                  ![c].trace = Append(@, <<"program", a, w>>),
                  ![c].pc = "w_verify"]
    /\ UNCHANGED <<PAGE_SIZE, guarded, locked, mem0>>

\* read back, check data, i += 4 and the loop test
write_verify(c) ==
    /\ call[c].pc = "w_verify"
    /\ LET k == call[c]
           a == k.addr + k.i
           read_data == mem[a]
           ok == write_verify_ok(read_data, write_word(k.buf, k.i))
       IN call' = [call EXCEPT
                  ![c].trace = Append(@, <<"verify", a, read_data>>)
                                 \o (IF ok THEN <<>> ELSE write_fail_log),
                  ![c].result = IF ok THEN @ ELSE FLASH_WRITE_ERR,
                  ![c].i = IF ok THEN @ + 4 ELSE @,
                  ![c].pc = write_next_pc(ok, k.i, k.size)]
    /\ UNCHANGED <<PAGE_SIZE, guarded, mem, locked, mem0>>

\* FLASH_Lock(); return result
write_lock(c) ==
    /\ call[c].pc = "w_lock"
    /\ locked' = TRUE
    /\ call' = [call EXCEPT ![c].trace = Append(@, <<"lock", 0, "">>),
                            ![c].pc = "done"]
    /\ UNCHANGED <<PAGE_SIZE, guarded, mem, mem0>>

(* ------------------------------ logging -------------------------------- *)
Messages == {"msg"}

\* a logging call hands strs to rt_kprintf.  log_buf is scratch: every use
\* formats into it before reading it, so it carries nothing between calls
LogCall(c, name, text, strs) ==
    /\ call[c].pc = "idle"
    /\ call' = [call EXCEPT ![c] =
                  [IdleCall EXCEPT !.op = name, !.pc = "done",
                       !.trace = Kprintf(strs)]]
    /\ mem0' = mem
    /\ UNCHANGED <<PAGE_SIZE, guarded, mem, locked>>

\* rt_vsprintf(log_buf, format, args); rt_kprintf("%s", log_buf)
flash_print(c, text) == LogCall(c, "print", text, <<text>>)

\* flash_print("[Flash]"); rt_vsprintf(log_buf, ...); flash_print("%s", log_buf)
flash_log_info(c, text) == LogCall(c, "info", text, <<"[Flash]", text>>)

\* FLASH_PRINT_DEBUG is defined: flash_print("[Flash](%s:%ld) ", file, line);
\* rt_vsprintf(log_buf, ...); flash_print("%s", log_buf)
flash_log_debug(c, text) ==
    LogCall(c, "debug", text, <<"[Flash](file:line) ", text>>)

(* --------------------------- specification ----------------------------- *)
\* the caller takes the result of a returned call
Return(c) ==
    /\ call[c].pc = "done"
    /\ call' = [call EXCEPT ![c] = IdleCall]
    /\ mem0' = mem
    /\ UNCHANGED <<PAGE_SIZE, guarded, mem, locked>>

\* the store's lock: no other call of the port is in flight (a call halted
\* in a failed assertion never comes back and never releases the lock)
Serialized(c) == \A d \in Callers \ {c} : call[d].pc = "idle"

\* c is the lowest free slot
FirstFree(c) == \A d \in Callers : d < c => call[d].pc # "idle"

\* the store may enter the port: under its lock when it holds one
MayEnter(c) == FirstFree(c) /\ (guarded => Serialized(c))

Store_init(c) ==
    MayEnter(c) /\ \E hint \in SizeHints : Call_flash_port_init(c, hint)

Store_read(c) ==
    /\ MayEnter(c)
    /\ \E a \in WordAddrs, n \in 0..TrackWords :
         Tracked(a, n) /\ Call_flash_read(c, a, n)

Store_erase(c) ==
    /\ MayEnter(c)
    /\ \E a \in EraseAddrs, size \in EraseSizes : Call_flash_erase(c, a, size)

Store_write(c) ==
    /\ MayEnter(c)
    /\ \E a \in WordAddrs, size \in WriteSizes :
         /\ WriteFits(a, WordsOf(size))
         /\ \E buf \in [1..WordsOf(size) -> DataWords] :
              Call_flash_write(c, a, buf, size)

Store_print(c) == MayEnter(c) /\ \E text \in Messages : flash_print(c, text)

Store_log_info(c) ==
    MayEnter(c) /\ \E text \in Messages : flash_log_info(c, text)

Store_log_debug(c) ==
    MayEnter(c) /\ \E text \in Messages : flash_log_debug(c, text)

Next ==
    \E c \in Callers :
        \/ Store_init(c)
        \/ Store_read(c)
        \/ Store_erase(c)
        \/ Store_write(c)
        \/ Store_print(c)
        \/ Store_log_info(c)
        \/ Store_log_debug(c)
        \/ init_assert(c)
        \/ init_assign(c)
        \/ read_step(c)
        \/ erase_unlock(c)
        \/ erase_page(c)
        \/ erase_lock(c)
        \/ write_unlock(c)
        \/ write_program(c)
        \/ write_verify(c)
        \/ write_lock(c)
        \/ Return(c)

Spec == Init /\ [][Next]_vars

(* ----------------- two tasks, with and without the lock ---------------- *)
\* The port takes no lock of its own (flash_erase and flash_write start
\* with FLASH_Unlock and nothing else), so whether two calls can overlap is
\* the store's choice: guarded is fixed at start either way.
InitConc ==
    /\ PAGE_SIZE \in PageSizes
    /\ mem = [a \in Cells |-> "00000000"]
    /\ mem0 = mem
    /\ locked = TRUE
    /\ call = [c \in Callers |-> IdleCall]
    /\ guarded \in BOOLEAN

\* what the two tasks ask for: an erase of the region, a write at its start
TaskEraseSizes == {FLASH_ENV_SECTION_SIZE}
TaskBufs == {<<"AAAAAAAA">>, <<"55555555", "AAAAAAAA">>}

Task_erase(c) ==
    /\ MayEnter(c)
    /\ \E size \in TaskEraseSizes :
         Call_flash_erase(c, FLASH_ENV_START_ADDR, size)

Task_write(c) ==
    /\ MayEnter(c)
    /\ \E buf \in TaskBufs :
         Call_flash_write(c, FLASH_ENV_START_ADDR, buf, 4 * Len(buf))

NextConc ==
    \E c \in Callers :
        \/ Task_erase(c)
        \/ Task_write(c)
        \/ erase_unlock(c)
        \/ erase_page(c)
        \/ erase_lock(c)
        \/ write_unlock(c)
        \/ write_program(c)
        \/ write_verify(c)
        \/ write_lock(c)
        \/ Return(c)

SpecConc == InitConc /\ [][NextConc]_vars

(* ------------------------------ properties ----------------------------- *)
Done(c, op) == call[c].pc = "done" /\ call[c].op = op
\* the words [a, a + 4n) of content m are all ones
RangeErased(m, a, n) == \A j \in 0..(n - 1) : m[a + 4 * j] = ERASED
\* ceil(size / PAGE_SIZE)
CeilPages(size) == (size + PAGE_SIZE - 1) \div PAGE_SIZE
\* address a lies in one of the pages addr + j * PAGE_SIZE, j < pages
InPages(a, addr, pages) ==
    \E j \in 0..(pages - 1) : PageOf(a) = PageOf(addr + j * PAGE_SIZE)

\* C1: write/read round trip.  When flash_write(addr, data) has returned
\* FLASH_NO_ERR on a range that was erased when it was entered, flash_read of
\* len(data) words at addr yields exactly data, word for word, in order.
C1_WriteReadRoundTrip ==
    \A c \in Callers :
        LET k == call[c] IN
        (/\ Done(c, "write")
         /\ k.result = FLASH_NO_ERR
         /\ RangeErased(mem0, k.addr, Len(k.buf)))
        => flash_read_words(mem, k.addr, Len(k.buf)) = k.buf

C1_Witness ==
    \E c \in Callers :
        /\ Done(c, "write")
        /\ call[c].result = FLASH_NO_ERR
        /\ Len(call[c].buf) = 3
        /\ call[c].buf[1] # call[c].buf[2]
        /\ RangeErased(mem0, call[c].addr, 3)
        /\ flash_read_words(mem, call[c].addr, 3) = call[c].buf

\* C2: erase postcondition.  When flash_erase(addr, size) with page-aligned
\* addr and size > 0 has returned FLASH_NO_ERR, every word in
\* [addr, addr + ceil(size / PAGE_SIZE) * PAGE_SIZE) is all ones, and
\* flash_read over any part of that range yields only FFFFFFFF words.
C2_ErasePostcondition ==
    \A c \in Callers :
        LET k == call[c]
            end == k.addr + CeilPages(k.size) * PAGE_SIZE
        IN
        (/\ Done(c, "erase")
         /\ k.result = FLASH_NO_ERR
         /\ k.addr % PAGE_SIZE = 0
         /\ k.size > 0)
        => /\ \A a \in Cells : (k.addr <= a /\ a < end) => mem[a] = ERASED
           /\ \A a \in WordAddrs, n \in 0..TrackWords :
                (Tracked(a, n) /\ k.addr <= a /\ a + 4 * n <= end)
                => flash_read_words(mem, a, n) = [j \in 1..n |-> ERASED]

C2_Witness ==
    \E c \in Callers :
        /\ Done(c, "erase")
        /\ call[c].result = FLASH_NO_ERR
        /\ call[c].addr = FLASH_ENV_START_ADDR
        /\ call[c].size = 2049
        /\ \A a \in Cells :
             (call[c].addr <= a /\ a < call[c].addr + 2 * PAGE_SIZE)
             => mem0[a] # ERASED /\ mem[a] = ERASED

\* C3: erase page count.  When no page erase fails, flash_erase(addr, size)
\* issues FLASH_ErasePage for exactly ceil(size / PAGE_SIZE) pages, at
\* addr + i * PAGE_SIZE for i = 0, 1, ... in this order, and leaves every
\* word outside these pages as it was; with PAGE_SIZE = 1024 a size of 1500
\* erases exactly 2 pages.
C3_ErasePageCount ==
    \A c \in Callers :
        LET k == call[c]
            es == Entries(k.trace, "erase")
            pages == CeilPages(k.size)
        IN
        (/\ Done(c, "erase")
         /\ \A j \in 1..Len(es) : es[j][3] = FLASH_COMPLETE)
        => /\ es = [j \in 1..pages |->
                      <<"erase", k.addr + (j - 1) * PAGE_SIZE, FLASH_COMPLETE>>]
           /\ \A a \in Cells : ~InPages(a, k.addr, pages) => mem[a] = mem0[a]
           /\ (PAGE_SIZE = 1024 /\ k.size = 1500) => Len(es) = 2

C3_Witness ==
    \E c \in Callers :
        /\ Done(c, "erase")
        /\ call[c].result = FLASH_NO_ERR
        /\ PAGE_SIZE = 1024
        /\ call[c].size = 1500
        /\ call[c].addr = PageAddr(0)
        /\ Len(Entries(call[c].trace, "erase")) = 2
        /\ \A a \in PageCells(0) \cup PageCells(1) :
             mem0[a] # ERASED /\ mem[a] = ERASED
        /\ \A a \in PageCells(2) : mem[a] = mem0[a] /\ mem[a] # ERASED

\* C4: erase fails fast, without rollback.  If page k is the first whose
\* erase is not reported FLASH_COMPLETE, no FLASH_ErasePage is issued after
\* it, the call goes on to return FLASH_ERASE_ERR, and the pages 0..k-1
\* erased before it stay all ones; FLASH_ERASE_ERR is returned for no other
\* reason.
C4_EraseFailFast ==
    \A c \in Callers :
        LET k == call[c]
            es == Entries(k.trace, "erase")
        IN
        k.op = "erase" =>
          /\ \A j \in 1..Len(es) :
               /\ es[j][2] = k.addr + (j - 1) * PAGE_SIZE
               /\ es[j][3] # FLASH_COMPLETE =>
                    /\ j = Len(es)
                    /\ k.pc \in {"e_lock", "done"}
                    /\ k.result = FLASH_ERASE_ERR
                    /\ \A a \in Cells :
                         InPages(a, k.addr, j - 1) => mem[a] = ERASED
          /\ k.result # FLASH_NO_ERR =>
               /\ k.result = FLASH_ERASE_ERR
               /\ es # <<>> /\ es[Len(es)][3] # FLASH_COMPLETE

C4_Witness ==
    \E c \in Callers :
        LET es == Entries(call[c].trace, "erase") IN
        /\ Done(c, "erase")
        /\ call[c].result = FLASH_ERASE_ERR
        /\ call[c].erase_pages = 3
        /\ call[c].addr = PageAddr(0)
        /\ Len(es) = 2
        /\ \A a \in PageCells(0) : mem0[a] # ERASED /\ mem[a] = ERASED
        /\ \A a \in PageCells(2) : mem[a] # ERASED

\* C5: write fails fast, without rollback.  If word k is the first whose
\* readback differs from the value written, no FLASH_ProgramWord is issued
\* after it, the call goes on to return FLASH_WRITE_ERR, the words 0..k-1
\* keep the values written and the words after k keep their content from
\* before the call; FLASH_WRITE_ERR is returned for no other reason.
C5_WriteFailFast ==
    \A c \in Callers :
        LET k == call[c]
            ps == Entries(k.trace, "program")
            vs == Entries(k.trace, "verify")
        IN
        k.op = "write" =>
          /\ \A j \in 1..Len(ps) :
               ps[j] = <<"program", k.addr + 4 * (j - 1), k.buf[j]>>
          /\ \A j \in 1..Len(vs) :
               vs[j][3] # k.buf[j] =>
                 /\ j = Len(vs) /\ j = Len(ps)
                 /\ k.pc \in {"w_lock", "done"}
                 /\ k.result = FLASH_WRITE_ERR
                 /\ \A h \in 1..(j - 1) : mem[k.addr + 4 * (h - 1)] = k.buf[h]
                 /\ \A h \in (j + 1)..Len(k.buf) :
                      mem[k.addr + 4 * (h - 1)] = mem0[k.addr + 4 * (h - 1)]
          /\ k.result # FLASH_NO_ERR =>
               /\ k.result = FLASH_WRITE_ERR
               /\ vs # <<>> /\ vs[Len(vs)][3] # k.buf[Len(vs)]

C5_Witness ==
    \E c \in Callers :
        LET k == call[c] IN
        /\ Done(c, "write")
        /\ k.result = FLASH_WRITE_ERR
        /\ Len(k.buf) = 3
        /\ Len(Entries(k.trace, "verify")) = 2
        /\ mem0[k.addr] = ERASED /\ mem[k.addr] = k.buf[1]
        /\ mem0[k.addr + 8] = ERASED /\ mem[k.addr + 8] = ERASED

\* the call in slot c is between its FLASH_Unlock and its FLASH_Lock
Unlocked(c) == call[c].pc \in {"e_page", "e_lock", "w_program", "w_verify", "w_lock"}

\* C6: exclusive-access bracketing.  With serialized callers the controller
\* is unlocked exactly while a flash_erase or flash_write is between its
\* FLASH_Unlock and its FLASH_Lock: no page erase, word program or readback
\* is issued on a locked controller, and every returned flash_erase or
\* flash_write, failed ones included, has issued one FLASH_Unlock first and
\* one FLASH_Lock last and leaves the controller locked.
C6_LockBracket ==
    /\ locked <=> ~(\E c \in Callers : Unlocked(c))
    /\ \A c \in Callers :
         call[c].pc \in {"e_page", "w_program", "w_verify"} => ~locked
    /\ \A c \in Callers :
         LET t == call[c].trace IN
         (Done(c, "erase") \/ Done(c, "write")) =>
           /\ locked
           /\ Len(t) >= 2
           /\ t[1][1] = "unlock" /\ t[Len(t)][1] = "lock"
           /\ Len(Entries(t, "unlock")) = 1 /\ Len(Entries(t, "lock")) = 1

C6_Witness ==
    \E c \in Callers :
        /\ Done(c, "erase")
        /\ call[c].result = FLASH_ERASE_ERR
        /\ Len(Entries(call[c].trace, "erase")) = 2
        /\ call[c].trace[Len(call[c].trace)][1] = "lock"
        /\ locked

C8_SizeValidation ==
    \A c \in Callers :
         LET k == call[c] IN
         /\ (k.op = "init" /\ k.size % 4 # 0) =>
              /\ k.pc \in {"i_assert", "fault"}
              /\ k.out = [NoOut EXCEPT !.env_size = k.size]
         /\ k.pc = "fault" => (k.op = "init" /\ k.size % 4 # 0)
         /\ Done(c, "init") => k.size % 4 = 0

C8_Witness ==
    \E c \in Callers :
        /\ call[c].pc = "fault"
        /\ call[c].size = 2
        /\ call[c].out = [NoOut EXCEPT !.env_size = 2]

\* the outputs of flash_port_init as the build fixes them
Negotiated ==
    [env_addr |-> FLASH_BASE + 100 * 1024,
     env_size |-> PAGE_SIZE,
     default_env |-> default_env_set,
     default_env_size |-> 5]

\* C9: negotiation is deterministic and authoritative.  Every completed
\* flash_port_init returns the same four outputs, fixed by the build alone:
\* they depend neither on the hint nor on what happened to the medium, and
\* the size is the section size even where the hint differs from it.  The
\* call makes no access to the flash controller and leaves the medium and
\* its lock as it found them.
C9_NegotiationDeterministic ==
    /\ [](\A c \in Callers :
            LET k == call[c] IN
            /\ Done(c, "init") => k.out = Negotiated
            /\ k.op = "init" => (k.trace = <<>> /\ mem = mem0))
    /\ [][/\ PAGE_SIZE' = PAGE_SIZE
          /\ \A c \in Callers :
               (call[c].op = "init" \/ call'[c].op = "init")
               => (mem' = mem /\ locked' = locked)]_vars

C9_Witness ==
    \E c \in Callers :
        /\ Done(c, "init")
        /\ call[c].size = 1024
        /\ call[c].out.env_size = 2048
        /\ \E a \in Cells : mem[a] = "AAAAAAAA"

\* C10: region well-formedness.  The region flash_port_init returns starts
\* at FLASH_BASE + 100 KB, page-aligned for the page size of the build (1024
\* or 2048); its size is a positive whole number of pages and a multiple of
\* 4; and a successful flash_erase(start, size) of that region leaves every
\* word of the region all ones and every word outside it as it was.
C10_RegionWellFormed ==
    \A c \in Callers :
        LET k == call[c] IN
        /\ Done(c, "init") =>
             /\ PAGE_SIZE \in {1024, 2048}
             /\ k.out.env_addr = FLASH_BASE + 100 * 1024
             /\ k.out.env_addr % PAGE_SIZE = 0
             /\ k.out.env_size > 0
             /\ k.out.env_size % PAGE_SIZE = 0
             /\ k.out.env_size % 4 = 0
        /\ (/\ Done(c, "erase")
            /\ k.result = FLASH_NO_ERR
            /\ k.addr = init_outputs(0).env_addr
            /\ k.size = init_outputs(0).env_size)
           => \A a \in Cells :
                IF k.addr <= a /\ a < k.addr + k.size
                THEN mem[a] = ERASED
                ELSE mem[a] = mem0[a]

C10_Witness ==
    /\ PAGE_SIZE = 2048
    /\ \E c \in Callers :
         /\ Done(c, "erase")
         /\ call[c].result = FLASH_NO_ERR
         /\ call[c].addr = init_outputs(0).env_addr
         /\ call[c].size = init_outputs(0).env_size
         /\ \A a \in PageCells(RegionPage) : mem0[a] # ERASED /\ mem[a] = ERASED
         /\ mem[FLASH_ENV_START_ADDR - 4] # ERASED
         /\ mem[FLASH_ENV_START_ADDR + 2048] # ERASED

\* every tracked word of the pages flash_erase(addr, size) names is all
\* ones in content m
ErasedAtEntry(m, addr, size) ==
    \A a \in Cells : InPages(a, addr, CeilPages(size)) => m[a] = ERASED

\* C11 (as stated): erase is idempotent.  flash_erase on a range that is
\* already fully erased returns FLASH_NO_ERR and leaves the medium content
\* unchanged.
C11_EraseIdempotent ==
    \A c \in Callers :
        LET k == call[c] IN
        (Done(c, "erase") /\ ErasedAtEntry(mem0, k.addr, k.size))
        => (k.result = FLASH_NO_ERR /\ mem = mem0)

\* C11 (amended): flash_erase on a range that is already fully erased
\* leaves the medium content unchanged whatever it returns; it returns
\* FLASH_NO_ERR exactly when the controller reported no page erase as other
\* than FLASH_COMPLETE, and FLASH_ERASE_ERR otherwise.
C11_EraseIdempotentContent ==
    \A c \in Callers :
        LET k == call[c]
            es == Entries(k.trace, "erase")
        IN
        (Done(c, "erase") /\ ErasedAtEntry(mem0, k.addr, k.size))
        => /\ mem = mem0
           /\ (k.result = FLASH_NO_ERR)
                <=> (\A j \in 1..Len(es) : es[j][3] = FLASH_COMPLETE)
           /\ k.result \in {FLASH_NO_ERR, FLASH_ERASE_ERR}

C11_Witness ==
    \E c \in Callers :
        LET k == call[c] IN
        /\ Done(c, "erase")
        /\ k.size > PAGE_SIZE
        /\ ErasedAtEntry(mem0, k.addr, k.size)
        /\ Len(Entries(k.trace, "erase")) = 2
        /\ k.result = FLASH_NO_ERR
        /\ mem = mem0
        /\ \E a \in Cells : mem[a] # ERASED

C13_DefaultDataset ==
    \A c \in Callers :
        LET k == call[c] IN
        /\ Done(c, "init")
           => /\ k.out.default_env =
                   << <<"iap_need_copy_app", "0">>,
                      <<"iap_copy_app_size", "0">>,
                      <<"stop_in_bootloader", "0">>,
                      <<"device_id", "1">>,
                      <<"boot_times", "0">> >>
              /\ k.out.default_env_size = 5
              /\ k.out.default_env_size = Len(k.out.default_env)
        /\ k.op # "init" => k.out = NoOut

C13_Witness ==
    \E c \in Callers :
        LET k == call[c] IN
        /\ Done(c, "init")
        /\ Len(k.out.default_env) = 5
        /\ k.out.default_env[4] = <<"device_id", "1">>
        /\ k.out.default_env_size = 5
        /\ \E a \in Cells : mem[a] = ERASED
        /\ \E a \in Cells : mem[a] = "55555555"

\* the program and verify entries of a trace, in order
ProgramVerify(t) == SelectSeq(t, LAMBDA e : e[1] \in {"program", "verify"})

\* C14: program-then-verify ordering.  Within one flash_write the readback
\* and compare of word i comes after the program of word i and before the
\* program of word i+1: the programs and verifications of a call alternate,
\* pair i on address addr + 4i with the i-th word supplied; a program
\* without its verification exists only while that verification is the
\* next step; and on FLASH_NO_ERR the verifications are as many as the
\* words programmed, ceil(size / 4).
C14_ProgramThenVerify ==
    \A c \in Callers :
        LET k == call[c]
            pv == ProgramVerify(k.trace)
            ps == Entries(k.trace, "program")
            vs == Entries(k.trace, "verify")
        IN
        k.op = "write"
        => /\ \A j \in 1..Len(pv) :
                /\ pv[j][1] = IF j % 2 = 1 THEN "program" ELSE "verify"
                /\ pv[j][2] = k.addr + 4 * ((j - 1) \div 2)
                /\ j % 2 = 1 => pv[j][3] = k.buf[(j + 1) \div 2]
           /\ (Len(pv) % 2 = 1) <=> (k.pc = "w_verify")
           /\ Done(c, "write") => Len(vs) = Len(ps)
           /\ (Done(c, "write") /\ k.result = FLASH_NO_ERR)
              => (Len(vs) = (k.size + 3) \div 4 /\ Len(ps) = Len(vs))

C14_Witness ==
    \E c \in Callers :
        LET k == call[c]
            pv == ProgramVerify(k.trace)
        IN
        /\ Done(c, "write")
        /\ k.result = FLASH_NO_ERR
        /\ k.size = 12
        /\ Len(pv) = 6
        /\ pv[3][1] = "program" /\ pv[4][1] = "verify"
        /\ pv[4][2] = k.addr + 4
        /\ pv[4][3] = k.buf[2]

\* C15: no internal retry.  Within one flash_write each word address is
\* programmed at most once and within one flash_erase each page is erased
\* at most once; a failed page erase or a failed check is the last erase or
\* program of its call.
C15_NoRetry ==
    \A c \in Callers :
        LET k == call[c]
            es == Entries(k.trace, "erase")
            ps == Entries(k.trace, "program")
            vs == Entries(k.trace, "verify")
        IN
        /\ \A j, h \in 1..Len(es) :
             j < h => PageOf(es[j][2]) # PageOf(es[h][2])
        /\ \A j, h \in 1..Len(ps) : j < h => ps[j][2] # ps[h][2]
        /\ \A j \in 1..Len(es) : es[j][3] # FLASH_COMPLETE => j = Len(es)
        /\ \A j \in 1..Len(vs) : vs[j][3] # ps[j][3] => j = Len(ps)
        /\ k.op = "erase" => Len(es) <= k.erase_pages
        /\ k.op = "write" => Len(ps) <= (k.size + 3) \div 4

C15_Witness ==
    \E c \in Callers :
        LET k == call[c]
            ps == Entries(k.trace, "program")
            vs == Entries(k.trace, "verify")
        IN
        /\ Done(c, "write")
        /\ k.size = 12
        /\ Len(ps) = 2
        /\ Len(vs) = 2
        /\ vs[2][3] # ps[2][3]
        /\ ps[1][2] # ps[2][2]
        /\ k.result = FLASH_WRITE_ERR

\* C16: read is side-effect free on the medium.  No step of a flash_read,
\* from its entry to its return, changes the content of a cell or the lock
\* state of the controller, for every address and word count and in every
\* reachable state: throughout the call the content is the content at entry
\* and the call issues no controller operation.
C16_ReadSideEffectFree ==
    /\ [](\A c \in Callers :
            call[c].op = "read" => (mem = mem0 /\ call[c].trace = <<>>))
    /\ [][\A c \in Callers :
            (call[c].op = "read" \/ call'[c].op = "read")
            => (mem' = mem /\ locked' = locked)]_vars

C16_Witness ==
    \E c \in Callers :
        LET k == call[c] IN
        /\ Done(c, "read")
        /\ k.size = TrackWords
        /\ k.i = TrackWords
        /\ k.buf[1] = "AAAAAAAA"
        /\ k.buf[2] = ERASED
        /\ mem = mem0
        /\ locked

\* a call is about to hand a page erase or a word program to the controller
Issuing(c) == call[c].pc \in {"e_page", "w_program"}

\* C17: the layer does not itself exclude concurrent callers.  With the
\* callers serialized by the store's lock at most one call is in flight and
\* no call is ever about to issue a page erase or a word program with the
\* controller locked; the state in which it is (the other call's final
\* FLASH_Lock has locked the controller under a call inside its loop) is
\* reachable only without that lock.
C17_SerializedExcludes ==
    guarded =>
         /\ \A c, d \in Callers :
              (c # d /\ call[c].pc # "idle") => call[d].pc = "idle"
         /\ \A c \in Callers : Issuing(c) => ~locked

C17_Witness ==
    \E c, d \in Callers :
        /\ c # d
        /\ ~guarded
        /\ Issuing(c)
        /\ locked
        /\ call[d].pc = "done"
        /\ call[d].op \in {"erase", "write"}
        /\ call[d].trace[Len(call[d].trace)] = <<"lock", 0, "">>

\* C18: the result of flash_write depends only on the readback comparison.
\* flash_write returns FLASH_NO_ERR if and only if every word supplied was
\* read back equal to itself, and FLASH_WRITE_ERR if and only if some
\* readback differed; a write onto cells that already hold the supplied
\* words returns FLASH_NO_ERR though no cell was erased, and a write that
\* leaves a programmed cell with a value other than the word supplied
\* returns FLASH_WRITE_ERR.
C18_ResultIsReadback ==
    \A c \in Callers :
        LET k == call[c]
            n == (k.size + 3) \div 4
            ps == Entries(k.trace, "program")
            vs == Entries(k.trace, "verify")
        IN
        Done(c, "write")
        => /\ (k.result = FLASH_NO_ERR)
                <=> (Len(vs) = n /\ \A j \in 1..n : vs[j][3] = k.buf[j])
           /\ (k.result = FLASH_WRITE_ERR)
                <=> (\E j \in 1..Len(vs) : vs[j][3] # k.buf[j])
           /\ (\A j \in 1..n : mem0[k.addr + 4 * (j - 1)] = k.buf[j])
                => k.result = FLASH_NO_ERR
           /\ (\E j \in 1..Len(ps) : mem[ps[j][2]] # ps[j][3])
                => k.result = FLASH_WRITE_ERR

C18_Witness ==
    \E c \in Callers :
        LET k == call[c] IN
        /\ Done(c, "write")
        /\ k.size = 8
        /\ k.buf = <<"AAAAAAAA", "55555555">>
        /\ mem0[k.addr] = "AAAAAAAA"
        /\ mem0[k.addr + 4] = "55555555"
        /\ k.result = FLASH_NO_ERR
        /\ mem = mem0

C20_EmptyOperations ==
    \A c \in Callers :
        LET k == call[c] IN
        (k.op \in {"erase", "write"} /\ k.size = 0)
        => /\ Entries(k.trace, "erase") = <<>>
           /\ Entries(k.trace, "program") = <<>>
           /\ mem = mem0
           /\ k.result = FLASH_NO_ERR
           /\ k.pc = "done"
              => /\ k.trace = << <<"unlock", 0, "">>, <<"lock", 0, "">> >>
                 /\ locked

C20_Witness ==
    \E c \in Callers :
        LET k == call[c] IN
        /\ Done(c, "erase")
        /\ k.size = 0
        /\ k.addr = FLASH_ENV_START_ADDR
        /\ k.trace = << <<"unlock", 0, "">>, <<"lock", 0, "">> >>
        /\ locked
        /\ mem[k.addr] = "AAAAAAAA"
        /\ mem = mem0

TypeOK ==
    /\ PAGE_SIZE \in PageSizes
    /\ mem \in [Cells -> Words]
    /\ locked \in BOOLEAN
    /\ guarded \in BOOLEAN

====
